---- MODULE Spec2Model ----
(***************************************************************************)
(* A model of fix_config.py: the read-modify-write cycle of fix_config and *)
(* the __main__ block that calls it.                                       *)
(*                                                                         *)
(* JSON values are tagged records [t, v]:                                  *)
(*   t = "str"  v a string          t = "bool" v a boolean                 *)
(*   t = "null" v = "null"          t = "arr"  v a sequence of values      *)
(*   t = "obj"  v a sequence of <<key, value>> pairs, in key order         *)
(* A Python dict is an "obj" whose keys are pairwise different; the text   *)
(* of a file may repeat a key, and json.load resolves the repetition.      *)
(*                                                                         *)
(*   t = "num"  v an integer                                               *)
(*                                                                         *)
(* A file is [exists, mode, syntax, layout, raw]: the content of a file is *)
(* kept as its syntax class, its layout ("compact", "indent2", "indent4",  *)
(* "none") and the value tree that the text spells out.  The syntax        *)
(* classes are                                                             *)
(*   "json"        a JSON text json.load accepts                           *)
(*   "garbage", "empty", "prefix"   decodable text that is no JSON text    *)
(*   "undecodable" bytes the encoding of open() cannot decode              *)
(*   "json_bigint" a JSON text with an integer literal longer than the     *)
(*                 interpreter's limit for int(str)                        *)
(*   "json_deep"   a JSON text nested deeper than the recursion limit      *)
(*   "directory"   the path names a directory                              *)
(***************************************************************************)
EXTENDS Integers, Sequences, FiniteSets, TLC

\* ---------------------------------------------------------------- bounds
MaxTables == 2
MaxCols == 1
MaxRuns == 2

\* ----------------------------------------------------------- JSON values
JStr(s) == [t |-> "str", v |-> s]
JBool(b) == [t |-> "bool", v |-> b]
JNull == [t |-> "null", v |-> "null"]
JArr(s) == [t |-> "arr", v |-> s]
JObj(p) == [t |-> "obj", v |-> p]
JNum(n) == [t |-> "num", v |-> n]
\* no document has been loaded
NotLoaded == [t |-> "none", v |-> "none"]

\* -------------------------------------------------- PROBLEMATIC_COLUMNS
PROBLEMATIC_COLUMNS ==
    ("Production.WorkOrderRouting" :> <<"LocationID">>) @@
    ("Production.ProductModel" :> <<"CatalogDescription">>) @@
    ("Purchasing.ProductVendor" :> <<"LastReceiptCost", "LastReceiptDate">>) @@
    ("Person.StateProvince" :> <<"StateProvinceID", "IsOnlyStateProvinceFlag">>) @@
    ("Sales.SalesOrderDetail" :> <<"SalesOrderDetailID">>) @@
    ("Production.ProductInventory" :> <<"LocationID">>) @@
    ("Production.ProductDescription" :> <<"ProductDescriptionID">>) @@
    ("Production.ProductModelProductDescriptionCulture" :> <<"ProductDescriptionID">>) @@
    ("Purchasing.PurchaseOrderDetail" :> <<"PurchaseOrderDetailID">>) @@
    ("Sales.SalesPerson" :> <<"SalesLastYear">>) @@
    ("Sales.SalesTerritory" :> <<"SalesLastYear", "CostLastYear">>) @@
    ("Purchasing.ShipMethod" :> <<"ShipMethodID", "ShipBase", "ShipRate">>) @@
    ("Purchasing.PurchaseOrderHeader" :> <<"ShipMethodID", "ShipDate">>) @@
    ("Sales.SalesOrderHeader" :> <<"ShipDate", "ShipMethodID">>)

\* ------------------------------------------------------ dict operations
\* key in d
HasKey(d, key) == \E i \in 1..Len(d.v) : d.v[i][1] = key

\* d.get(key, default)
dict_get(d, key, default) ==
    IF HasKey(d, key)
    THEN d.v[CHOOSE i \in 1..Len(d.v) : d.v[i][1] = key][2]
    ELSE default

\* d[key] = val: an existing key keeps its position, a new key goes last
dict_set(d, key, val) ==
    IF HasKey(d, key)
    THEN JObj([i \in 1..Len(d.v) |->
                 IF d.v[i][1] = key THEN <<key, val>> ELSE d.v[i]])
    ELSE JObj(Append(d.v, <<key, val>>))

\* table_name in PROBLEMATIC_COLUMNS (a str key; bool and null hash to no key)
InMap(table_name) ==
    table_name.t = "str" /\ table_name.v \in DOMAIN PROBLEMATIC_COLUMNS

\* variant: only the first name of the list is compared
InList_FirstOnly(col_name, problematic_cols) ==
    col_name.t = "str" /\ problematic_cols[1] = col_name.v

\* variant: the name is looked up in the lists of all tables
InList_AnyTable(col_name, problematic_cols) ==
    col_name.t = "str" /\
    \E tn \in DOMAIN PROBLEMATIC_COLUMNS :
      \E i \in 1..Len(PROBLEMATIC_COLUMNS[tn]) :
        PROBLEMATIC_COLUMNS[tn][i] = col_name.v

\* col_name in problematic_cols (list membership by ==)
InList(col_name, problematic_cols) ==
    col_name.t = "str" /\
    \E i \in 1..Len(problematic_cols) : problematic_cols[i] = col_name.v

\* ----------------------------------------------------- standard output
\* sys.stdout is one of
\*   "ok"               every line is taken and reaches the device
\*   "ascii"            the encoding is ASCII with strict errors
\*   "full_unbuffered"  unbuffered, and the device refuses every write
\*   "full_buffered"    block-buffered, and the device refuses every write
\*                      the buffers pass on to it
Stdouts == {"ok", "ascii", "full_unbuffered", "full_buffered"}

NonAsciiPath == "é.json"
\* the strings of the model that hold a letter outside ASCII
NonAscii == {NonAsciiPath}

\* the bytes of s in UTF-8: one for a letter of ASCII, two for the "é"
Utf8Len(s) == Len(s) + (IF s \in NonAscii THEN 1 ELSE 0)
RECURSIVE Utf8Size(_, _)
Utf8Size(parts, k) ==
    IF k = 0 THEN 0 ELSE Utf8Size(parts, k - 1) + Utf8Len(parts[k])

\* A block-buffered sys.stdout has two layers.  The text layer keeps the
\* bytes print hands it (pend) and passes them on once they reach ChunkSize;
\* the binary layer keeps what it is passed (held) while it fits in
\* BufferSize, the block size of the device, and writes to the device what
\* does not fit.
ChunkSize == 8192
BufferSize == 4096
EmptyBuffer == [pend |-> 0, held |-> 0]
Buffer(r) == [pend |-> r.pend, held |-> r.held]
Raised(st, e) == [pend |-> st.pend, held |-> st.held, err |-> e]

\* the binary layer is passed n bytes over a device that refuses every write:
\* they are held when they fit, else the write to the device raises
BufferedWrite(st, n) ==
    IF n <= BufferSize - st.held
    THEN [pend |-> st.pend, held |-> st.held + n, err |-> ""]
    ELSE Raised(st, "OSError")

\* the text layer passes on all it keeps; the bytes are gone from it even
\* when the binary layer raises
WriteFlush(st) == BufferedWrite([pend |-> 0, held |-> st.held], st.pend)

\* sys.stdout.write of a str of n bytes, first half: what waits is passed on
\* when the two together would exceed ChunkSize
MakeRoom(st, n) ==
    IF st.pend > 0 /\ st.pend + n > ChunkSize
    THEN WriteFlush(st)
    ELSE Raised(st, "")

\* second half: the n bytes wait with the rest, and all of it is passed on
\* once ChunkSize is reached
AddPending(a, n) ==
    IF a.err # "" THEN a
    ELSE IF a.pend + n >= ChunkSize
    THEN WriteFlush([pend |-> a.pend + n, held |-> a.held])
    ELSE [pend |-> a.pend + n, held |-> a.held, err |-> ""]

\* sys.stdout.write of a str of n bytes
TextWrite(st, n) == AddPending(MakeRoom(st, n), n)

\* the write of the "\n" that print makes after the write of the line
WriteNewline(a) == IF a.err # "" THEN a ELSE TextWrite(a, 1)

\* print of the line made of parts on the standard output so with the
\* buffers st: [pend, held, err], the buffers after the call and the
\* exception raised ("" for none)
PrintLine(so, st, parts) ==
    IF so = "ascii" /\ \E k \in 1..Len(parts) : parts[k] \in NonAscii
    THEN Raised(st, "UnicodeEncodeError")
    ELSE IF so = "full_unbuffered" THEN Raised(st, "OSError")
    ELSE IF so = "full_buffered"
    THEN WriteNewline(TextWrite(st, Utf8Size(parts, Len(parts))))
    ELSE Raised(st, "")

\* the exception print raises for a line made of parts, "" for none
PrintError(so, st, parts) == PrintLine(so, st, parts).err

\* the flushes of sys.stdout at the exit of the interpreter over a device
\* that refuses every write: what the binary layer holds, or can take from
\* the text layer, fails its flush; a larger rest of the text layer is lost
\* without a trace
FlushFails(st) == st.held > 0 \/ st.pend \in 1..BufferSize

\* hash(x) raises TypeError for list and dict
Unhashable(x) == x.t \in {"arr", "obj"}

\* iter(x) raises TypeError for None, bool and int
Iterable(x) == x.t \in {"arr", "obj", "str"}

\* the items a for loop over x visits: the elements of a list, the keys of
\* a dict, the characters of a str (the loop bodies fail on the first
\* character, so a non-empty str is one str item here)
IterItems(x) ==
    IF x.t = "arr" THEN x.v
    ELSE IF x.t = "obj" THEN [i \in 1..Len(x.v) |-> JStr(x.v[i][1])]
    ELSE IF x.v = "" THEN <<>> ELSE <<JStr(x.v)>>

\* ------------------------------------------------- json.load / json.dump
\* dict(pairs): a repeated key keeps its first position and its last value
RECURSIVE FromPairs(_, _)
FromPairs(pairs, n) ==
    IF n = 0 THEN JObj(<<>>)
    ELSE dict_set(FromPairs(pairs, n - 1), pairs[n][1], pairs[n][2])

\* json.load on the value tree that a well-formed text spells out
RECURSIVE json_load(_)
json_load(raw) ==
    IF raw.t = "arr" THEN JArr([i \in 1..Len(raw.v) |-> json_load(raw.v[i])])
    ELSE IF raw.t = "obj"
    THEN FromPairs([i \in 1..Len(raw.v) |->
                      <<raw.v[i][1], json_load(raw.v[i][2])>>], Len(raw.v))
    ELSE raw

\* variant: json.dump(config.get("Tables", []), f, indent=2) under a new root
json_dump_TablesOnly(config) ==
    [syntax |-> "json", layout |-> "indent2",
     raw |-> JObj(<<<<"Tables", dict_get(config, "Tables", JArr(<<>>))>>>>)]

\* json.dump(config, f, indent=2): the complete text of config, 2-space layout
json_dump(config) ==
    [syntax |-> "json", layout |-> "indent2", raw |-> config]

\* what open(path, 'w') leaves in the file before anything is written
Truncated == [syntax |-> "empty", layout |-> "none", raw |-> JNull]

\* what a failed json.dump leaves behind: nothing flushed, or a proper prefix
\* of the text of config
PartialDump(config, flushed) ==
    IF flushed
    THEN [syntax |-> "prefix", layout |-> "indent2", raw |-> config]
    ELSE Truncated

\* ---------------------------------------------------- the mutation loops
\* variant: config.setdefault(key, []) before the loop
StoreBack_SetDefault(d, key, items) ==
    IF HasKey(d, key) /\ dict_get(d, key, JNull).t # "arr"
    THEN d
    ELSE dict_set(d, key, JArr(items))

\* column["Enabled"] = False reaches config through the list that holds the
\* column: the list under key is replaced by its patched items
StoreBack(d, key, items) ==
    IF HasKey(d, key) /\ dict_get(d, key, JNull).t = "arr"
    THEN dict_set(d, key, JArr(items))
    ELSE d

Notice(table_name, col_name) == "Disabled " \o table_name \o "." \o col_name

\* the end of lines 41-43 for the column disabled in acc and the print p of
\* its notice: the count goes up by step unless the print has raised
Counted(disabled, p, notice, step) ==
    IF p.err # ""
    THEN [disabled EXCEPT !.st = Buffer(p), !.err = p.err]
    ELSE [disabled EXCEPT !.st = Buffer(p), !.out = Append(@, notice),
                          !.n = @ + step]

\* variant: only a column that was not already false is counted
DisableColumn_CountTransitions(so, acc, j, table_name, col_name) ==
    Counted([acc EXCEPT !.items[j] = dict_set(@, "Enabled", JBool(FALSE))],
            PrintLine(so, acc.st, <<"Disabled ", table_name, ".", col_name>>),
            "Disabled " \o table_name \o "." \o col_name,
            IF dict_get(acc.items[j], "Enabled", JNull) = JBool(FALSE)
            THEN 0 ELSE 1)

\* variant: column["Enabled"] = not column.get("Enabled", True)
DisableColumn_Toggle(so, acc, j, table_name, col_name) ==
    Counted([acc EXCEPT !.items[j] =
               dict_set(@, "Enabled",
                        JBool(dict_get(@, "Enabled", JNull) = JBool(FALSE)))],
            PrintLine(so, acc.st, <<"Disabled ", table_name, ".", col_name>>),
            "Disabled " \o table_name \o "." \o col_name, 1)

\* lines 41-43: the column is disabled, then the notice is printed, then the
\* count is raised; a print that raises leaves the column disabled and the
\* count as it was
DisableColumn(so, acc, j, table_name, col_name) ==
    Counted([acc EXCEPT !.items[j] = dict_set(@, "Enabled", JBool(FALSE))],
            PrintLine(so, acc.st, <<"Disabled ", table_name, ".", col_name>>),
            Notice(table_name, col_name), 1)

\* variant: table["Columns"], which has no value for a table without the key
TableColumns_Subscript(table) == dict_get(table, "Columns", JNull)

\* table.get("Columns", [])
TableColumns(table) == dict_get(table, "Columns", JArr(<<>>))

\* config.get("Tables", [])
ConfigTables(cfg) == dict_get(cfg, "Tables", JArr(<<>>))

\* for column in table.get("Columns", []): ...
\* acc = [items, out, st, n, err]: the items visited (patched so far), the
\* lines print has taken, the buffers of the standard output, fixed_count,
\* and the exception raised ("" for none); so is the standard output
RECURSIVE ColumnLoop(_, _, _, _, _)
ColumnLoop(so, table_name, problematic_cols, j, acc) ==
    IF j > Len(acc.items) THEN acc
    ELSE LET column == acc.items[j] IN
         IF column.t # "obj" THEN [acc EXCEPT !.err = "AttributeError"]
         ELSE LET col_name == dict_get(column, "ColumnName", JStr("")) IN
              IF InList(col_name, problematic_cols)
              THEN LET d == DisableColumn(so, acc, j, table_name, col_name.v) IN
                   IF d.err # "" THEN d
                   ELSE ColumnLoop(so, table_name, problematic_cols, j + 1, d)
              ELSE ColumnLoop(so, table_name, problematic_cols, j + 1, acc)

\* for table in config.get("Tables", []): ...
RECURSIVE TableLoop(_, _, _)
TableLoop(so, i, acc) ==
    IF i > Len(acc.items) THEN acc
    ELSE LET table == acc.items[i] IN
         IF table.t # "obj" THEN [acc EXCEPT !.err = "AttributeError"]
         ELSE LET table_name == dict_get(table, "TableName", JStr("")) IN
              IF Unhashable(table_name) THEN [acc EXCEPT !.err = "TypeError"]
              ELSE IF ~InMap(table_name) THEN TableLoop(so, i + 1, acc)
              ELSE LET problematic_cols == PROBLEMATIC_COLUMNS[table_name.v]
                       columns == TableColumns(table)
                   IN
                   IF ~Iterable(columns) THEN [acc EXCEPT !.err = "TypeError"]
                   ELSE LET r == ColumnLoop(so, table_name.v, problematic_cols, 1,
                                   [items |-> IterItems(columns),
                                    out |-> acc.out, st |-> acc.st,
                                    n |-> acc.n, err |-> ""])
                            acc2 == [items |-> [acc.items EXCEPT ![i] =
                                                  StoreBack(table, "Columns", r.items)],
                                     out |-> r.out, st |-> r.st,
                                     n |-> r.n, err |-> r.err]
                        IN IF r.err # "" THEN acc2 ELSE TableLoop(so, i + 1, acc2)

\* lines 31-43 of fix_config on the loaded config, printing to so, whose
\* buffers are empty: [config, out, st, n, err] after the loops end or raise
MutateResult(so, cfg) ==
    IF cfg.t # "obj"
    THEN [config |-> cfg, out |-> <<>>, st |-> EmptyBuffer, n |-> 0,
          err |-> "AttributeError"]
    ELSE LET tables == ConfigTables(cfg) IN
         IF ~Iterable(tables)
         THEN [config |-> cfg, out |-> <<>>, st |-> EmptyBuffer, n |-> 0,
               err |-> "TypeError"]
         ELSE LET r == TableLoop(so, 1, [items |-> IterItems(tables),
                                         out |-> <<>>, st |-> EmptyBuffer,
                                         n |-> 0, err |-> ""])
              IN [config |-> StoreBack(cfg, "Tables", r.items),
                  out |-> r.out, st |-> r.st, n |-> r.n, err |-> r.err]

\* ------------------------------------------------------------ the files
DefaultPath == "JSON/AdventureWorks2019.json"
CustomPath == "custom.json"
\* a path to the same kind of file that is close to the longest the system
\* takes: "./" 2040 times, then the name
RECURSIVE Repeat(_, _)
Repeat(s, n) ==
    IF n = 0 THEN ""
    ELSE LET half == Repeat(s, n \div 2) IN
         IF n % 2 = 0 THEN half \o half ELSE half \o half \o s
LongPath == Repeat("./", 2040) \o "long.json"
Paths == {DefaultPath, CustomPath, NonAsciiPath, LongPath}

MkFile(mode, text) ==
    [exists |-> TRUE, mode |-> mode, syntax |-> text.syntax,
     layout |-> text.layout, raw |-> text.raw]

MissingFile ==
    [exists |-> FALSE, mode |-> "none", syntax |-> "empty",
     layout |-> "none", raw |-> JNull]

Text(layout, raw) == [syntax |-> "json", layout |-> layout, raw |-> raw]
Garbage == [syntax |-> "garbage", layout |-> "none", raw |-> JNull]
Unloadable(syntax) == [syntax |-> syntax, layout |-> "none", raw |-> JNull]

\* the exception lines 28-29 raise on a file that exists and can be read,
\* "" for none: open() on a directory, the decoding of the bytes, json.load
LoadError(f) ==
    IF f.syntax = "directory" THEN "IsADirectoryError"
    ELSE IF f.syntax = "undecodable" THEN "UnicodeDecodeError"
    ELSE IF f.syntax = "json_bigint" THEN "ValueError"
    ELSE IF f.syntax = "json_deep" THEN "RecursionError"
    ELSE IF f.syntax # "json" THEN "JSONDecodeError"
    ELSE ""

Readable(f) == f.mode \in {"r", "rw"}
Writable(f) == f.mode \in {"w", "rw"}
TextOf(f) == [syntax |-> f.syntax, layout |-> f.layout, raw |-> f.raw]

\* ------------------------------------------------- the input documents
SeqsUpTo(S, n) == UNION {[1..k -> S] : k \in 0..n}

MkColumn(name, enabled) ==
    JObj(<<<<"ColumnName", JStr(name)>>, <<"Enabled", enabled>>,
           <<"DataType", JStr("int")>>>>)
MkColumnNoEnabled(name) ==
    JObj(<<<<"ColumnName", JStr(name)>>, <<"DataType", JStr("int")>>>>)
MkTable(name, columns) ==
    JObj(<<<<"TableName", JStr(name)>>, <<"Columns", JArr(columns)>>,
           <<"Enabled", JBool(TRUE)>>>>)
MkTableNoColumns(name) ==
    JObj(<<<<"TableName", JStr(name)>>, <<"Enabled", JBool(TRUE)>>>>)
MkDoc(tables) ==
    JObj(<<<<"Database", JStr("AdventureWorks2019")>>, <<"Tables", JArr(tables)>>,
           <<"Enabled", JBool(TRUE)>>>>)

ColumnSet ==
    {MkColumn("LocationID", JBool(TRUE)), MkColumnNoEnabled("ShipDate"),
     MkColumn("OrderQty", JBool(FALSE))}
TableNames == {"Production.WorkOrderRouting", "HumanResources.Employee"}
TableSet ==
    {MkTable(nm, cols) : nm \in TableNames, cols \in SeqsUpTo(ColumnSet, MaxCols)}
      \cup {MkTableNoColumns("Production.WorkOrderRouting")}
GenDocs == {MkDoc(ts) : ts \in SeqsUpTo(TableSet, MaxTables)}

\* the scenarios of the specification and documents off the schema
ScenarioDoc ==
    MkDoc(<<MkTable("Sales.SalesOrderDetail",
                    <<MkColumn("SalesOrderDetailID", JBool(TRUE)),
                      MkColumn("OrderQty", JBool(TRUE)),
                      MkColumn("SalesOrderDetailID", JBool(FALSE))>>),
            MkTable("HumanResources.Employee",
                    <<MkColumn("SalesOrderDetailID", JBool(TRUE))>>),
            MkTable("Purchasing.PurchaseOrderHeader",
                    <<MkColumn("ShipDate", JStr("yes")),
                      MkColumn("LocationID", JBool(TRUE)),
                      MkColumnNoEnabled("ShipMethodID")>>)>>)
NoTablesDoc ==
    JObj(<<<<"Database", JStr("AdventureWorks2019")>>, <<"Enabled", JBool(TRUE)>>>>)
RepeatedKeyDoc ==
    MkDoc(<<MkTable("Production.ProductInventory",
                    <<JObj(<<<<"Enabled", JBool(FALSE)>>,
                             <<"ColumnName", JStr("Shelf")>>,
                             <<"Enabled", JBool(TRUE)>>,
                             <<"ColumnName", JStr("LocationID")>>>>)>>)>>)
NamelessDoc ==
    MkDoc(<<JObj(<<<<"Columns", JArr(<<MkColumn("LocationID", JBool(TRUE))>>)>>>>),
            MkTable("Production.WorkOrderRouting",
                    <<JObj(<<<<"Enabled", JBool(TRUE)>>>>),
                      MkColumn("LocationID", JBool(TRUE))>>)>>)
\* integers among the fields, as a table name, and in place of the columns
NumbersDoc ==
    MkDoc(<<JObj(<<<<"TableName", JNum(7)>>,
                   <<"Columns", JArr(<<MkColumn("LocationID", JBool(TRUE))>>)>>>>),
            MkTable("Production.ProductModel",
                    <<JObj(<<<<"ColumnName", JStr("CatalogDescription")>>,
                             <<"Enabled", JNum(1)>>,
                             <<"MaxLength", JNum(50)>>>>),
                      JObj(<<<<"ColumnName", JNum(0)>>,
                             <<"Enabled", JBool(TRUE)>>>>)>>)>>)
OffSchemaDocs ==
    {JArr(<<>>),
     JObj(<<<<"Tables", JNum(3)>>>>),
     JObj(<<<<"Tables", JNull>>>>),
     JObj(<<<<"Tables", JObj(<<>>)>>>>),
     MkDoc(<<MkTable("Sales.SalesPerson",
                     <<MkColumn("SalesLastYear", JBool(TRUE))>>),
             JStr("Sales.SalesTerritory")>>),
     MkDoc(<<JObj(<<<<"TableName", JArr(<<>>)>>>>)>>),
     MkDoc(<<MkTable("Sales.SalesTerritory",
                     <<MkColumn("CostLastYear", JBool(TRUE)), JNull>>)>>),
     MkDoc(<<JObj(<<<<"TableName", JStr("Sales.SalesPerson")>>,
                    <<"Columns", JBool(TRUE)>>>>)>>),
     MkDoc(<<JObj(<<<<"TableName", JNull>>,
                    <<"Columns", JArr(<<MkColumn("LocationID", JBool(TRUE))>>)>>>>)>>)}
EdgeDocs ==
    {ScenarioDoc, NoTablesDoc, RepeatedKeyDoc, NamelessDoc, NumbersDoc}
      \cup OffSchemaDocs

EdgeFiles ==
    {MissingFile, MkFile("rw", Garbage), MkFile("rw", Truncated)}
      \cup {MkFile("rw", Unloadable(x)) :
              x \in {"undecodable", "json_bigint", "json_deep", "directory"}}
      \cup {MkFile(m, Text("indent4", ScenarioDoc)) : m \in {"r", "w", "none"}}
      \cup {MkFile("rw", Text(l, d)) : l \in {"indent2", "indent4"}, d \in EdgeDocs}
GenFiles == {MkFile("rw", Text("compact", d)) : d \in GenDocs}

\* the file at a path that is not the target of the invocation
OtherFile == MkFile("rw", Text("compact", ScenarioDoc))

\* ----------------------------------------------------------- the state
VARIABLES
    argv,          \* sys.argv of every invocation
    stdout,        \* the standard output of every invocation
    fs,            \* the file at each path
    pc,            \* where the invocation stands
    config_path,   \* the argument of fix_config
    config,        \* the document in memory
    readDoc,       \* the document as json.load returned it
    fixed_count,
    out,           \* the lines of this invocation that reached standard output
    buf,           \* the lines print has taken that did not reach the device
    bytes,         \* the bytes that wait in the buffers of standard output
    ret,           \* the value fix_config returned, -1 before it returns
    err,           \* the exception that ended the invocation, "" for none
    opens,         \* the successful open() calls of this invocation
    nruns,         \* invocations started
    before,        \* the files as this invocation found them
    prev           \* how the previous invocation ended

env == <<argv, stdout>>
hist == <<nruns, before, prev>>
vars == <<argv, stdout, fs, pc, config_path, config, readDoc, fixed_count,
          out, buf, bytes, ret, err, opens, nruns, before, prev>>

Program == "fix_config.py"

\* lines 53-55: the path main passes to fix_config
ConfigFile(args) == IF Len(args) > 1 THEN args[2] ELSE DefaultPath

NoRun == [ok |-> FALSE, ret |-> -1]

\* the generated documents come on the command line with a working standard
\* output; the other files come at every path with every standard output
Init ==
    /\ argv \in {<<Program>>, <<Program, CustomPath>>, <<Program, NonAsciiPath>>,
                 <<Program, LongPath>>}
    /\ stdout \in Stdouts
    /\ \E f \in EdgeFiles \cup
                (IF ConfigFile(argv) = CustomPath /\ stdout = "ok"
                 THEN GenFiles ELSE {}) :
         fs = [p \in Paths |-> IF p = ConfigFile(argv) THEN f ELSE OtherFile]
    /\ pc = "idle"
    /\ config_path = ""
    /\ config = JNull
    /\ readDoc = NotLoaded
    /\ fixed_count = 0
    /\ out = <<>>
    /\ buf = <<>>
    /\ bytes = EmptyBuffer
    /\ ret = -1
    /\ err = ""
    /\ opens = <<>>
    /\ nruns = 0
    /\ before = fs
    /\ prev = NoRun

Summary(n) == "Fixed " \o ToString(n) \o " problematic columns"
Footer(path) == "Configuration fixed: " \o path

Raise(e) == pc' = "error" /\ err' = e

\* the lines print has taken go to the device, or into the buffers of a
\* device that takes nothing
Emit(lines) ==
    IF stdout = "full_buffered"
    THEN buf' = buf \o lines /\ out' = out
    ELSE out' = out \o lines /\ buf' = buf

\* the exit status of the process once pc is "exit0", "exit120" or "error":
\* a flush that fails at exit turns any status into 120
ExitStatus ==
    IF stdout = "full_buffered" /\ FlushFails(bytes) THEN 120
    ELSE IF pc = "error" THEN 1
    ELSE 0

\* the command is run: lines 52-57 up to the call of fix_config
Main ==
    /\ pc \in {"idle", "exit0", "exit120", "error"}
    /\ nruns < MaxRuns
    /\ nruns' = nruns + 1
    /\ before' = fs
    /\ prev' = [ok |-> ret # -1, ret |-> ret]
    /\ config_path' = ConfigFile(argv)
    /\ pc' = "load"
    /\ config' = JNull
    /\ readDoc' = NotLoaded
    /\ fixed_count' = 0
    /\ out' = <<>>
    /\ buf' = <<>>
    /\ bytes' = EmptyBuffer
    /\ ret' = -1
    /\ err' = ""
    /\ opens' = <<>>
    /\ UNCHANGED <<env, fs>>

\* variant: open(config_path, 'a+'), which creates a missing file
Load_CreatesMissing ==
    /\ pc = "load"
    /\ LET f == fs[config_path] IN
       IF ~f.exists
       THEN /\ fs' = [fs EXCEPT ![config_path] = MkFile("rw", Truncated)]
            /\ opens' = Append(opens, <<config_path, "r">>)
            /\ Raise("JSONDecodeError")
            /\ UNCHANGED <<config, readDoc>>
       ELSE IF ~Readable(f)
       THEN Raise("PermissionError") /\ UNCHANGED <<fs, config, readDoc, opens>>
       ELSE IF LoadError(f) = "IsADirectoryError"
       THEN Raise(LoadError(f)) /\ UNCHANGED <<fs, config, readDoc, opens>>
       ELSE /\ opens' = Append(opens, <<config_path, "r">>)
            /\ fs' = fs
            /\ IF LoadError(f) # ""
               THEN Raise(LoadError(f)) /\ UNCHANGED <<config, readDoc>>
               ELSE /\ config' = json_load(f.raw)
                    /\ readDoc' = json_load(f.raw)
                    /\ pc' = "mutate"
                    /\ err' = ""
    /\ UNCHANGED <<env, config_path, fixed_count, out, buf, bytes, ret, hist>>

\* lines 28-29: with open(config_path, 'r') as f: config = json.load(f)
Load ==
    /\ pc = "load"
    /\ LET f == fs[config_path] IN
       IF ~f.exists
       THEN Raise("FileNotFoundError") /\ UNCHANGED <<config, readDoc, opens>>
       ELSE IF ~Readable(f)
       THEN Raise("PermissionError") /\ UNCHANGED <<config, readDoc, opens>>
       ELSE IF LoadError(f) = "IsADirectoryError"
       THEN Raise(LoadError(f)) /\ UNCHANGED <<config, readDoc, opens>>
       ELSE /\ opens' = Append(opens, <<config_path, "r">>)
            /\ IF LoadError(f) # ""
               THEN Raise(LoadError(f)) /\ UNCHANGED <<config, readDoc>>
               ELSE /\ config' = json_load(f.raw)
                    /\ readDoc' = json_load(f.raw)
                    /\ pc' = "mutate"
                    /\ err' = ""
    /\ UNCHANGED <<env, fs, config_path, fixed_count, out, buf, bytes, ret, hist>>

\* lines 31-43: the two loops
Mutate ==
    /\ pc = "mutate"
    /\ LET r == MutateResult(stdout, config) IN
       /\ config' = r.config
       /\ fixed_count' = r.n
       /\ Emit(r.out)
       /\ bytes' = r.st
       /\ IF r.err # "" THEN Raise(r.err) ELSE pc' = "persist" /\ err' = ""
    /\ UNCHANGED <<env, fs, config_path, readDoc, ret, opens, hist>>

\* variant: open(DefaultPath, 'w'), the path of line 53 instead of the argument
OpenWrite_DefaultPath ==
    /\ pc = "persist"
    /\ LET f == fs[DefaultPath] IN
       IF f.exists /\ ~Writable(f)
       THEN Raise("PermissionError") /\ UNCHANGED <<fs, opens>>
       ELSE /\ fs' = [fs EXCEPT ![DefaultPath] =
                        MkFile(IF f.exists THEN f.mode ELSE "rw", Truncated)]
            /\ opens' = Append(opens, <<DefaultPath, "w">>)
            /\ pc' = "dump"
            /\ err' = ""
    /\ UNCHANGED <<env, config_path, config, readDoc, fixed_count, out, buf,
                   bytes, ret, hist>>

\* line 46: open(config_path, 'w') truncates the file, or fails on its mode
OpenWrite ==
    /\ pc = "persist"
    /\ LET f == fs[config_path] IN
       IF f.exists /\ ~Writable(f)
       THEN Raise("PermissionError") /\ UNCHANGED <<fs, opens>>
       ELSE /\ fs' = [fs EXCEPT ![config_path] =
                        MkFile(IF f.exists THEN f.mode ELSE "rw", Truncated)]
            /\ opens' = Append(opens, <<config_path, "w">>)
            /\ pc' = "dump"
            /\ err' = ""
    /\ UNCHANGED <<env, config_path, config, readDoc, fixed_count, out, buf,
                   bytes, ret, hist>>

\* line 47 and the close of the file: the whole text reaches the file
Dump ==
    /\ pc = "dump"
    /\ fs' = [fs EXCEPT ![config_path] = MkFile(@.mode, json_dump(config))]
    /\ pc' = "report"
    /\ UNCHANGED <<env, config_path, config, readDoc, fixed_count, out, buf,
                   bytes, ret, err, opens, hist>>

\* variant: the OSError of the write is caught and the call goes on
DumpFails_Swallowed ==
    /\ pc = "dump"
    /\ \E flushed \in BOOLEAN :
         fs' = [fs EXCEPT ![config_path] =
                  MkFile(@.mode, PartialDump(config, flushed))]
    /\ pc' = "report"
    /\ UNCHANGED <<env, config_path, config, readDoc, fixed_count, out, buf,
                   bytes, ret, err, opens, hist>>

\* line 47 and the close of the file: the device fails the write (OSError)
DumpFails ==
    /\ pc = "dump"
    /\ \E flushed \in BOOLEAN :
         fs' = [fs EXCEPT ![config_path] =
                  MkFile(@.mode, PartialDump(config, flushed))]
    /\ Raise("OSError")
    /\ UNCHANGED <<env, config_path, config, readDoc, fixed_count, out, buf,
                   bytes, ret, opens, hist>>

\* the end of lines 49-50 for the print p of the summary
Return(p) ==
    /\ bytes' = Buffer(p)
    /\ IF p.err # ""
       THEN Raise(p.err) /\ UNCHANGED <<out, buf, ret>>
       ELSE /\ Emit(<<Summary(fixed_count)>>)
            /\ ret' = fixed_count
            /\ pc' = "footer"
            /\ err' = ""

\* lines 49-50: the summary is printed, then fix_config returns the count;
\* a print that raises ends the call without a return
Report ==
    /\ pc = "report"
    /\ Return(PrintLine(stdout, bytes, <<Summary(fixed_count)>>))
    /\ UNCHANGED <<env, fs, config_path, config, readDoc, fixed_count, opens,
                   hist>>

\* the end of line 58 for the print p of the last line, and the exit
Exit(p, fails) ==
    /\ bytes' = Buffer(p)
    /\ IF p.err # ""
       THEN Raise(p.err) /\ UNCHANGED <<out, buf>>
       ELSE /\ Emit(<<Footer(config_path)>>)
            /\ pc' = IF fails THEN "exit120" ELSE "exit0"
            /\ err' = IF fails THEN "OSError" ELSE ""

\* line 58 and the exit of the interpreter: main prints its last line, then
\* the buffers of standard output are flushed; a flush that fails makes the
\* exit status 120, and the lines in the buffers are lost either way
Finish ==
    /\ pc = "footer"
    /\ Exit(PrintLine(stdout, bytes, <<"Configuration fixed: ", config_path>>),
            stdout = "full_buffered" /\ FlushFails(bytes'))
    /\ UNCHANGED <<env, fs, config_path, config, readDoc, fixed_count, ret,
                   opens, hist>>

Next ==
    Main \/ Load \/ Mutate \/ OpenWrite \/ Dump \/ DumpFails \/ Report \/ Finish

Spec == Init /\ [][Next]_vars

\* =================================================== reading documents
\* The properties read documents with the operators below; none of them is
\* used by the actions.
Absent == [t |-> "absent", v |-> "absent"]
Field(x, key) == IF x.t = "obj" THEN dict_get(x, key, Absent) ELSE Absent
Entries(x, key) == LET f == Field(x, key) IN IF f.t = "arr" THEN f.v ELSE <<>>
TablesIn(doc) == Entries(doc, "Tables")
ColumnsIn(table) == Entries(table, "Columns")
TableAt(doc, i) ==
    LET ts == TablesIn(doc) IN IF i \in 1..Len(ts) THEN ts[i] ELSE Absent
ColumnAt(doc, i, j) ==
    LET cs == ColumnsIn(TableAt(doc, i)) IN
    IF j \in 1..Len(cs) THEN cs[j] ELSE Absent
Positions(doc) ==
    UNION {{<<i, j>> : j \in 1..Len(ColumnsIn(TableAt(doc, i)))} :
             i \in 1..Len(TablesIn(doc))}

\* the (TableName, ColumnName) pair of the column is in PROBLEMATIC_COLUMNS
Listed(table, column) ==
    LET tn == Field(table, "TableName")
        cn == Field(column, "ColumnName")
    IN /\ tn.t = "str"
       /\ cn.t = "str"
       /\ tn.v \in DOMAIN PROBLEMATIC_COLUMNS
       /\ \E k \in 1..Len(PROBLEMATIC_COLUMNS[tn.v]) :
            PROBLEMATIC_COLUMNS[tn.v][k] = cn.v
ListedAt(doc, i, j) == Listed(TableAt(doc, i), ColumnAt(doc, i, j))
ListedPositions(doc) == {q \in Positions(doc) : ListedAt(doc, q[1], q[2])}
EnabledAt(doc, i, j) == Field(ColumnAt(doc, i, j), "Enabled")

\* the document with every Column entry's "Enabled" field taken out
WithoutKey(x, key) ==
    IF x.t = "obj" THEN JObj(SelectSeq(x.v, LAMBDA kv : kv[1] # key)) ELSE x
MaskTable(table) ==
    IF Field(table, "Columns").t = "arr"
    THEN dict_set(table, "Columns",
                  JArr([j \in 1..Len(ColumnsIn(table)) |->
                          WithoutKey(ColumnsIn(table)[j], "Enabled")]))
    ELSE table
MaskDoc(doc) ==
    IF Field(doc, "Tables").t = "arr"
    THEN dict_set(doc, "Tables",
                  JArr([i \in 1..Len(TablesIn(doc)) |-> MaskTable(TablesIn(doc)[i])]))
    ELSE doc

Target == fs[config_path]
\* fix_config has returned its count (whatever main and the exit do next)
Returned == ret # -1
\* the invocation is over
Ended == pc \in {"exit0", "exit120", "error"}
\* the lines print has taken, delivered or not
Emitted == out \o buf
\* the file holds the complete text of a document
Complete(f) == f.exists /\ f.syntax = "json"
\* the "Disabled <TableName>.<ColumnName>" lines of the pairs of the map
NoticeLines ==
    UNION {{"Disabled " \o tn \o "." \o PROBLEMATIC_COLUMNS[tn][k] :
              k \in 1..Len(PROBLEMATIC_COLUMNS[tn])} :
             tn \in DOMAIN PROBLEMATIC_COLUMNS}
IsNotice(line) == line \in NoticeLines
NoticeCount == Cardinality({k \in 1..Len(Emitted) : IsNotice(Emitted[k])})
OpenedForWriting == \E k \in 1..Len(opens) : opens[k][2] = "w"

\* ================================================================ claims

\* C1 (Completeness): after fix_config returns, every listed column of every
\* table entry of the document that was read, repeated entries included, has
\* Enabled = false in the document the file holds, whatever it was before.
C1_Completeness ==
    Returned =>
      /\ Complete(Target)
      /\ \A q \in ListedPositions(readDoc) :
           EnabledAt(Target.raw, q[1], q[2]) = JBool(FALSE)

\* two entries of the same mapped table, each with a listed column that was
\* enabled, and the call has returned
C1_Witness ==
    /\ Returned
    /\ \E q1, q2 \in ListedPositions(readDoc) :
         /\ q1[1] # q2[1]
         /\ Field(TableAt(readDoc, q1[1]), "TableName")
              = Field(TableAt(readDoc, q2[1]), "TableName")
         /\ EnabledAt(readDoc, q1[1], q1[2]) = JBool(TRUE)
         /\ EnabledAt(readDoc, q2[1], q2[2]) = JBool(TRUE)

\* C2 (Containment): a column that is not listed for its own table has the
\* Enabled value (or no Enabled field) it had when read, in memory after the
\* loops and in the file after the return.
Contained(doc) ==
    \A q \in Positions(readDoc) :
      ListedAt(readDoc, q[1], q[2])
        \/ EnabledAt(doc, q[1], q[2]) = EnabledAt(readDoc, q[1], q[2])
C2_Containment ==
    /\ (pc \in {"persist", "dump", "report"} \/ Returned) => Contained(config)
    /\ Returned => Complete(Target) /\ Target.raw = config

\* a mapped table holds a column listed only for another table, next to a
\* column that was disabled, and the call has returned
C2_Witness ==
    /\ Returned
    /\ \E q \in Positions(readDoc) \ ListedPositions(readDoc) :
         /\ InMap(Field(TableAt(readDoc, q[1]), "TableName"))
         /\ Field(ColumnAt(readDoc, q[1], q[2]), "ColumnName")
              \in {JStr("ShipDate"), JStr("LocationID")}
    /\ \E q \in ListedPositions(readDoc) :
         EnabledAt(readDoc, q[1], q[2]) # EnabledAt(Target.raw, q[1], q[2])

\* C3 (Field preservation): apart from the Enabled fields of Column entries,
\* the document in the file after the return is the document that was read:
\* same top-level fields, same table fields, same column fields, same number
\* and order of entries.
C3_FieldPreservation ==
    Returned => Complete(Target) /\ MaskDoc(Target.raw) = MaskDoc(readDoc)

\* a document with several tables and columns was patched and written
C3_Witness ==
    /\ Returned
    /\ ret > 0
    /\ Len(TablesIn(readDoc)) >= 2
    /\ Target.raw # readDoc

\* C4 (Counting policy): the returned integer is the number of listed Column
\* entries of the document read, whatever their Enabled value was, and the
\* number of "Disabled ..." notices the invocation has printed (taken by
\* print, whether or not the device delivers them at the exit).
C4_Counting ==
    Returned =>
      /\ ret = Cardinality(ListedPositions(readDoc))
      /\ ret = NoticeCount
      /\ LET lines == {Emitted[k] : k \in 1..Len(Emitted)} IN
         \A q \in ListedPositions(readDoc) :
           ("Disabled " \o Field(TableAt(readDoc, q[1]), "TableName").v \o "."
              \o Field(ColumnAt(readDoc, q[1], q[2]), "ColumnName").v) \in lines

\* a listed column that was already false was counted together with another
C4_Witness ==
    /\ Returned
    /\ ret >= 2
    /\ \E q \in ListedPositions(readDoc) :
         EnabledAt(readDoc, q[1], q[2]) = JBool(FALSE)

\* C5 (Idempotence): when an invocation that returned is followed by a second
\* one on the same file, the second leaves the file as it found it, changes
\* no field of the document and returns the same count.
C5_Idempotence ==
    (Returned /\ prev.ok) =>
      /\ Target = before[config_path]
      /\ config = readDoc
      /\ ret = prev.ret

\* the second of two successful invocations, with columns to disable
C5_Witness == Returned /\ prev.ok /\ ret > 0

\* C6 (Load failure leaves the file untouched): when the invocation fails
\* without having loaded a document (path missing, unreadable or a directory,
\* content undecodable, not JSON, or beyond the limits of json.load), the
\* error reaches the caller, no file was opened for writing, every file is as
\* the invocation found it (a missing file stays missing), and nothing was
\* printed or returned.
LoadFailed == pc = "error" /\ readDoc = NotLoaded
LoadErrors ==
    {"FileNotFoundError", "PermissionError", "IsADirectoryError",
     "UnicodeDecodeError", "JSONDecodeError", "ValueError", "RecursionError"}
C6_LoadFailure ==
    /\ LoadFailed =>
         /\ err \in LoadErrors
         /\ ~OpenedForWriting
         /\ fs = before
         /\ Emitted = <<>>
         /\ ret = -1
         /\ ExitStatus = 1
    /\ (pc \in {"mutate", "persist", "dump", "report", "footer", "exit0", "exit120"}
          \/ (pc = "error" /\ ~LoadFailed)) =>
         /\ before[config_path].exists
         /\ Readable(before[config_path])
         /\ before[config_path].syntax = "json"

\* the file is missing and the invocation has failed
C6_Witness == LoadFailed /\ err = "FileNotFoundError" /\ ~Target.exists

\* C7 as stated (No partial-success semantics): an invocation ends either with
\* the complete mutated document in the file or with an error and a file that
\* was never written.
C7_NoPartialWrite ==
    Ended =>
      \/ /\ OpenedForWriting
         /\ Complete(Target)
         /\ TextOf(Target) = json_dump(config)
      \/ /\ pc = "error"
         /\ ~OpenedForWriting
         /\ fs = before

\* C7 as amended: an invocation ends with the complete mutated document in the
\* file (fix_config has returned, or a print after the write has raised), or
\* with an error before the file was opened for writing and the file as it
\* was, or with an OSError raised by the write after the file was truncated,
\* and then the file is empty or holds a proper prefix of the text.
C7_Outcomes ==
    /\ Returned => Complete(Target) /\ TextOf(Target) = json_dump(config)
    /\ Ended =>
         \/ /\ OpenedForWriting
            /\ Complete(Target)
            /\ TextOf(Target) = json_dump(config)
            /\ pc = "error" => err \in {"OSError", "UnicodeEncodeError"}
         \/ /\ pc = "error"
            /\ ~OpenedForWriting
            /\ fs = before
         \/ /\ pc = "error"
            /\ OpenedForWriting
            /\ err = "OSError"
            /\ ~Returned
            /\ Emitted = SelectSeq(Emitted, IsNotice)
            /\ TextOf(Target) \in {Truncated, PartialDump(config, TRUE)}
            /\ Target.syntax \in {"empty", "prefix"}

\* the write failed after part of the text had reached the file
C7_Witness ==
    /\ pc = "error"
    /\ err = "OSError"
    /\ Target.syntax = "prefix"
    /\ before[config_path].syntax = "json"

\* C8 (Missing "Tables"): a JSON object without a "Tables" field is patched
\* without error and without notice, 0 is returned, and the document written
\* is the document read, with no "Tables" field added.  The only exceptions
\* left are those of the devices: the open for writing, the write, a print.
NoTables(doc) == doc.t = "obj" /\ ~HasKey(doc, "Tables")
DeviceErrors == {"PermissionError", "OSError", "UnicodeEncodeError"}
C8_MissingTables ==
    NoTables(readDoc) =>
      /\ err \in DeviceErrors \cup {""}
      /\ (pc = "error" /\ ~OpenedForWriting) => err = "PermissionError"
      /\ NoticeCount = 0
      /\ pc \in {"persist", "dump", "report"} => config = readDoc /\ fixed_count = 0
      /\ (Returned \/ pc = "report") =>
           /\ Complete(Target)
           /\ Target.raw = readDoc
           /\ ~HasKey(Target.raw, "Tables")
      /\ Returned => ret = 0

\* a document without "Tables" went through the whole call
C8_Witness ==
    /\ pc = "exit0"
    /\ Returned
    /\ NoTables(readDoc)
    /\ Len(readDoc.v) > 0
    /\ TextOf(Target) # TextOf(before[config_path])

\* C9 (Missing "Columns"): a mapped table entry without a "Columns" field
\* raises no error, adds nothing to the count, is written back as it was, and
\* the tables after it are still processed.
OnSchema(doc) ==
    /\ doc.t = "obj"
    /\ Field(doc, "Tables").t \in {"arr", "absent"}
    /\ \A i \in 1..Len(TablesIn(doc)) :
         /\ TableAt(doc, i).t = "obj"
         /\ Field(TableAt(doc, i), "TableName").t \in {"str", "absent"}
         /\ Field(TableAt(doc, i), "Columns").t \in {"arr", "absent"}
         /\ \A j \in 1..Len(ColumnsIn(TableAt(doc, i))) :
              ColumnAt(doc, i, j).t = "obj"
ColumnlessTables(doc) ==
    {i \in 1..Len(TablesIn(doc)) :
       /\ InMap(Field(TableAt(doc, i), "TableName"))
       /\ Field(TableAt(doc, i), "Columns") = Absent}
C9_MissingColumns ==
    (ColumnlessTables(readDoc) # {} /\ OnSchema(readDoc)) =>
      /\ err \in DeviceErrors \cup {""}
      /\ (pc \in {"persist", "dump", "report"} \/ Returned) =>
           /\ fixed_count = Cardinality(ListedPositions(readDoc))
           /\ \A i \in ColumnlessTables(readDoc) :
                TableAt(config, i) = TableAt(readDoc, i)
           /\ \A q \in ListedPositions(readDoc) :
                EnabledAt(config, q[1], q[2]) = JBool(FALSE)
      /\ Returned =>
           /\ Complete(Target)
           /\ \A i \in ColumnlessTables(readDoc) :
                TableAt(Target.raw, i) = TableAt(readDoc, i)

\* a mapped table without "Columns" is followed by a table whose column was
\* disabled
C9_Witness ==
    /\ Returned
    /\ \E i \in ColumnlessTables(readDoc) :
         \E q \in ListedPositions(readDoc) :
           /\ q[1] > i
           /\ EnabledAt(readDoc, q[1], q[2]) = JBool(TRUE)
           /\ EnabledAt(Target.raw, q[1], q[2]) = JBool(FALSE)

\* C10 (Phase ordering): Load, Mutate, Persist, Report in that order and never
\* back; the file is read once and before any mutation; notices are printed
\* before the file is opened for writing; the file is opened for writing at
\* most once and at the path that was read; the summary and the returned
\* count come only after the complete text is in the file.
PhaseRank ==
    [idle |-> 0, load |-> 1, mutate |-> 2, persist |-> 3, dump |-> 4,
     report |-> 5, footer |-> 6, exit0 |-> 7, exit120 |-> 7, error |-> 7]
PhaseStep ==
    /\ pc' # pc =>
         \/ pc' = "load" /\ pc \in {"idle", "exit0", "exit120", "error"}
         \/ pc' = "error" /\ PhaseRank[pc] \in 1..6
         \/ pc' # "error" /\ PhaseRank[pc'] = PhaseRank[pc] + 1
    /\ (config' # config /\ pc' # "load") =>
         pc \in {"load", "mutate"} /\ opens' = <<<<config_path, "r">>>>
    /\ (Emitted' # Emitted /\ pc' # "load") =>
         \/ /\ pc = "mutate"
            /\ ~OpenedForWriting'
            /\ \A k \in 1..Len(Emitted') : IsNotice(Emitted'[k])
         \/ /\ pc = "report"
            /\ Emitted' = Append(Emitted, Summary(fixed_count))
            /\ ret' = fixed_count
         \/ /\ pc = "footer"
            /\ Emitted' = Append(Emitted, Footer(config_path))
    /\ ret' # ret => pc' = "load" \/ (pc = "report" /\ pc' = "footer")
    /\ fs' # fs =>
         /\ pc \in {"persist", "dump"}
         /\ \A p \in Paths \ {config_path} : fs'[p] = fs[p]
PhaseState ==
    /\ opens \in {<<>>, <<<<config_path, "r">>>>,
                  <<<<config_path, "r">>, <<config_path, "w">>>>}
    /\ pc \in {"mutate", "persist"} => opens = <<<<config_path, "r">>>>
    /\ (ret # -1 \/ \E k \in 1..Len(Emitted) : ~IsNotice(Emitted[k])) =>
         /\ PhaseRank[pc] \in {6, 7}
         /\ ret = fixed_count
         /\ opens = <<<<config_path, "r">>, <<config_path, "w">>>>
         /\ TextOf(Target) = json_dump(config)
C10_PhaseOrder == [][PhaseStep]_vars /\ []PhaseState

\* an invocation on the path given on the command line printed notices,
\* wrote the file and returned
C10_Witness ==
    /\ pc = "exit0"
    /\ Returned
    /\ config_path = CustomPath
    /\ NoticeCount > 0
    /\ opens = <<<<config_path, "r">>, <<config_path, "w">>>>

====
